---------------------------- MODULE Spec2Model ----------------------------
(***************************************************************************)
(* Roast session tracker of src/src/App.tsx: the React component App as a  *)
(* state machine.  Every useState cell is a variable, every event handler  *)
(* (with the guard of the control that invokes it: the view it is rendered *)
(* in and its disabled attribute) is an action, and the browser's          *)
(* localStorage entry 'roastHistory' and the setInterval registration of   *)
(* the timer effect are the two pieces of state outside React.             *)
(***************************************************************************)
EXTENDS Integers, Sequences, FiniteSets, TLC

VARIABLES
    appState,             \* useState<AppState>('setup'), or "unmounted"
    roastTimer,           \* useState(0)
    isTimerRunning,       \* useState(false)
    firstCrackTime,       \* useState<number | null>(null)
    temperatureReadings,  \* useState<TemperatureReading[]>([])
    currentTemp,          \* useState('')
    roastHistory,         \* useState<RoastData[]>([])
    greenWeight,          \* useState('')
    ambientTemp,          \* useState('')
    chargeTemp,           \* useState('')
    roastType,            \* useState('Medium')
    beanOrigin,           \* useState('')
    roastedWeight,        \* useState('')
    roastNotes,           \* useState('')
    localStorage,         \* the browser's entry for the key 'roastHistory'
    timerInterval         \* TRUE while the timer effect's setInterval is registered

vars == <<appState, roastTimer, isTimerRunning, firstCrackTime,
          temperatureReadings, currentTemp, roastHistory, greenWeight,
          ambientTemp, chargeTemp, roastType, beanOrigin, roastedWeight,
          roastNotes, localStorage, timerInterval>>

sessionVars == <<roastTimer, isTimerRunning, firstCrackTime,
                 temperatureReadings, currentTemp, timerInterval>>

setupVars == <<greenWeight, ambientTemp, chargeTemp, roastType, beanOrigin>>

completionVars == <<roastedWeight, roastNotes>>

archiveVars == <<roastHistory, localStorage>>

(***************************************************************************)
(* Bounds of the model.                                                    *)
(***************************************************************************)
\* roastTimer is capped: the interval callback is not taken beyond it.
MaxTimer == 2

\* temperatureReadings is capped: a further valid reading is not appended.
MaxReadings == 2

\* roastHistory is capped: saveRoast is not taken on a full archive.
MaxHistory == 2

\* Date.now() returns one of 1..MaxNow.
MaxNow == 2

(***************************************************************************)
(* JavaScript values.                                                      *)
(***************************************************************************)
\* firstCrackTime's null.  roastTimer is never negative, so -1 is free.
Null == -1

\* A JavaScript number: a rational n/d in lowest terms with d > 0 (every
\* number of the model is one; the doubles the code computes from the inputs
\* below are exactly these rationals), or NaN, Infinity, -Infinity.  "null"
\* is what JSON makes of the last three.
Special(kind) == [k |-> kind, n |-> 0, d |-> 1]

NaN == Special("NaN")

PosInfinity == Special("Infinity")

NegInfinity == Special("-Infinity")

JsonNull == Special("null")

Abs(i) == IF i < 0 THEN -i ELSE i

RECURSIVE Gcd(_, _)
Gcd(a, b) == IF b = 0 THEN a ELSE Gcd(b, a % b)

\* n/d in lowest terms, d made positive (d # 0).
Rat(n, d) ==
    LET g == Gcd(Abs(n), Abs(d))
        s == IF d < 0 THEN -1 ELSE 1
    IN  [k |-> "num", n |-> (s * n) \div g, d |-> (s * d) \div g]

Num(i) == [k |-> "num", n |-> i, d |-> 1]

IsFinite(x) == x.k = "num"

\* isNaN(x)
isNaN(x) == x.k = "NaN"

\* a - b
JsSub(a, b) ==
    IF IsFinite(a) /\ IsFinite(b) THEN Rat(a.n * b.d - b.n * a.d, a.d * b.d)
    ELSE IF isNaN(a) \/ isNaN(b) THEN NaN
    ELSE IF IsFinite(b) THEN a
    ELSE IF IsFinite(a) THEN (IF b = PosInfinity THEN NegInfinity ELSE PosInfinity)
    ELSE IF a = b THEN NaN ELSE a

\* a / b
JsDiv(a, b) ==
    IF isNaN(a) \/ isNaN(b) THEN NaN
    ELSE IF IsFinite(a) /\ IsFinite(b) THEN
        IF b.n # 0 THEN Rat(a.n * b.d, a.d * b.n)
        ELSE IF a.n = 0 THEN NaN
        ELSE IF a.n > 0 THEN PosInfinity ELSE NegInfinity
    ELSE IF IsFinite(a) THEN Num(0)
    ELSE IF ~IsFinite(b) THEN NaN
    ELSE IF (a = PosInfinity) = (b.n >= 0) THEN PosInfinity ELSE NegInfinity

\* a + b
JsAdd(a, b) ==
    IF IsFinite(a) /\ IsFinite(b) THEN Rat(a.n * b.d + b.n * a.d, a.d * b.d)
    ELSE IF isNaN(a) \/ isNaN(b) THEN NaN
    ELSE IF IsFinite(b) THEN a
    ELSE IF IsFinite(a) THEN b
    ELSE IF a = b THEN a ELSE NaN

\* a > b (false when either is NaN)
JsGt(a, b) ==
    IF isNaN(a) \/ isNaN(b) THEN FALSE
    ELSE IF IsFinite(a) /\ IsFinite(b) THEN a.n * b.d > b.n * a.d
    ELSE IF a = b THEN FALSE
    ELSE a = PosInfinity \/ b = NegInfinity

\* a >= b (false when either is NaN)
JsGe(a, b) == ~isNaN(a) /\ ~isNaN(b) /\ ~JsGt(b, a)

\* Math.max without the comparison: its first argument.
MathMaxFirst(a, b) == a

\* Math.max(a, b): NaN when either is NaN
MathMax(a, b) ==
    IF isNaN(a) \/ isNaN(b) THEN NaN
    ELSE IF JsGt(b, a) THEN b ELSE a

\* x || 0: NaN and 0 are falsy
OrZero(x) == IF isNaN(x) \/ x = Num(0) THEN Num(0) ELSE x

\* a * b
JsMul(a, b) ==
    IF isNaN(a) \/ isNaN(b) THEN NaN
    ELSE IF IsFinite(a) /\ IsFinite(b) THEN Rat(a.n * b.n, a.d * b.d)
    ELSE IF (IsFinite(a) /\ a.n = 0) \/ (IsFinite(b) /\ b.n = 0) THEN NaN
    ELSE LET pa == IF IsFinite(a) THEN a.n > 0 ELSE a = PosInfinity
             pb == IF IsFinite(b) THEN b.n > 0 ELSE b = PosInfinity
         IN  IF pa = pb THEN PosInfinity ELSE NegInfinity

\* Math.round(x): the nearest integer, a half rounded up.
MathRound(x) ==
    IF IsFinite(x) THEN Num((2 * x.n + x.d) \div (2 * x.d)) ELSE x

\* parseFloat(s), on the strings the inputs below deliver.
parseFloat(s) ==
    CASE s = "0"   -> Num(0)
      [] s = "-1000" -> Num(-1000)
      [] s = "-5"  -> Num(-5)
      [] s = "22"  -> Num(22)
      [] s = "100" -> Num(100)
      [] s = "200" -> Num(200)
      [] s = "250" -> Num(250)
      [] s = "500" -> Num(500)
      [] s = "501" -> Num(501)
      [] s = "600" -> Num(600)
      [] s = "210" -> Num(210)
      [] s = "340" -> Num(340)
      [] s = "400" -> Num(400)
      [] OTHER     -> NaN

\* A string used as a condition: '' is falsy, every other string truthy.
Truthy(s) == s # ""

\* JSON.stringify of a number: NaN and the infinities become null.
JsonNumber(x) == IF IsFinite(x) THEN x ELSE JsonNull

JsonReading(r) == [time |-> r.time, temperature |-> JsonNumber(r.temperature)]

JsonReadings(rs) == [i \in 1..Len(rs) |-> JsonReading(rs[i])]

JsonRoast(r) ==
    [r EXCEPT !.greenWeight = JsonNumber(@),
              !.roastedWeight = JsonNumber(@),
              !.ambientTemp = JsonNumber(@),
              !.chargeTemp = JsonNumber(@),
              !.developmentPercent = JsonNumber(@),
              !.weightLoss = JsonNumber(@),
              !.temperatureReadings = JsonReadings(@)]

\* JSON.stringify(history): the text, given as the value it denotes.
JSONstringify(history) == [i \in 1..Len(history) |-> JsonRoast(history[i])]

\* localStorage's entry: absent (getItem returns null), a text that
\* JSON.stringify wrote, or a text that is not JSON at all.
NoItem == [present |-> FALSE, json |-> TRUE, text |-> <<>>]

Item(text) == [present |-> TRUE, json |-> TRUE, text |-> text]

NotJson == [present |-> TRUE, json |-> FALSE, text |-> <<>>]

\* JSON.parse(text) of a text JSON.stringify wrote.
JSONparse(text) == text

\* JSON.parse throws a SyntaxError on a text that is not JSON.
JSONparseThrows(storage) == storage.present /\ ~storage.json

(***************************************************************************)
(* Derived values (computed on every render from the current state).       *)
(***************************************************************************)
\* firstCrackTime === null in place of !firstCrackTime.
NoFirstCrackStrict(fc) == fc = Null

\* !firstCrackTime: null and 0 are both falsy.
NoFirstCrack(fc) == fc = Null \/ fc = 0

\* getPredictions().  0.8 and 0.5 are the rationals 4/5 and 1/2: 0.5 is a
\* double, and the doubles 660 * 0.8 and 720 * 0.8 are exactly 528 and 576.
getPredictions ==
    LET weight == OrZero(parseFloat(greenWeight))
        charge == OrZero(parseFloat(chargeTemp))
        baseTime == IF JsGt(weight, Num(500)) THEN Num(720) ELSE Num(660)
        tempAdjustment == JsMul(JsSub(charge, Num(200)), Rat(1, 2))
        estimatedFirstCrack == JsAdd(JsMul(baseTime, Rat(4, 5)), tempAdjustment)
        estimatedTotal == JsAdd(baseTime, tempAdjustment)
        suggestedDevelopment ==
            IF roastType = "Light" THEN 15
            ELSE IF roastType = "Medium" THEN 18 ELSE 22
    IN  [firstCrack |-> MathMax(estimatedFirstCrack, Num(480)),
         totalTime |-> MathMax(estimatedTotal, Num(600)),
         development |-> suggestedDevelopment]

\* getCurrentPhase()
getCurrentPhase ==
    IF NoFirstCrack(firstCrackTime) THEN "drying"
    ELSE IF roastTimer < firstCrackTime THEN "maillard"
    ELSE "development"

\* getDevelopmentPercent() of a timer value and a first-crack value.  The
\* double (developmentTime / timer) * 100 rounds as the exact quotient does
\* for every timer below 40, which covers the model's bounds.
DevelopmentPercent(timer, fc) ==
    IF NoFirstCrack(fc) THEN Num(0)
    ELSE MathRound(JsMul(JsDiv(Num(timer - fc), Num(timer)), Num(100)))

getDevelopmentPercent == DevelopmentPercent(roastTimer, firstCrackTime)

\* getRateOfRise()
getRateOfRise ==
    IF Len(temperatureReadings) < 2 THEN Num(0)
    ELSE LET n == Len(temperatureReadings)
             timeDiff == Num(temperatureReadings[n].time - temperatureReadings[n - 1].time)
             tempDiff == JsSub(temperatureReadings[n].temperature,
                               temperatureReadings[n - 1].temperature)
         IN  MathRound(JsMul(JsDiv(tempDiff, timeDiff), Num(60)))

(***************************************************************************)
(* The timer effect, useEffect(..., [isTimerRunning]): after a render in   *)
(* which isTimerRunning changed, the previous interval is cleared and, when*)
(* isTimerRunning is true, a new one is registered.  It runs as part of    *)
(* the step that changes isTimerRunning: React flushes the effects of a    *)
(* click before it returns to the event loop, so no interval callback runs *)
(* in between.                                                             *)
(***************************************************************************)
\* The effect without its cleanup: an interval, once registered, stays.
TimerEffectNoCleanup(registered, running) == registered \/ running

TimerEffect(registered, running) == running

(***************************************************************************)
(* Inputs the operator can type or select.                                 *)
(***************************************************************************)
GreenWeightInputs == {"", "400"}

AmbientTempInputs == {"", "22"}

ChargeTempInputs == {"", "200"}

RoastTypeOptions == {"Light", "Medium", "Dark"}

BeanOriginInputs == {"", "Ethiopia"}

CurrentTempInputs == {"", "abc", "210"}

RoastedWeightInputs == {"", "340"}

RoastNotesInputs == {"", "fruity"}

\* Final weights the type=number field delivers: none, zero, negative, positive.
FinalWeightInputs == {"", "0", "-5", "340"}

\* Green weights on both sides of getPredictions' 500 g threshold, and none.
PredictWeightInputs == {"", "0", "400", "500", "501", "600"}

\* Charge temperatures below, at and above getPredictions' 200, and none.
PredictChargeInputs == {"", "-1000", "0", "100", "200", "250"}

Now == 1..MaxNow

(***************************************************************************)
(* Initial state: the useState initial values, an empty localStorage, and  *)
(* the two mount effects run (nothing to load, no interval).               *)
(***************************************************************************)
Init ==
    /\ appState = "setup"
    /\ roastTimer = 0
    /\ isTimerRunning = FALSE
    /\ firstCrackTime = Null
    /\ temperatureReadings = <<>>
    /\ currentTemp = ""
    /\ roastHistory = <<>>
    /\ greenWeight = ""
    /\ ambientTemp = ""
    /\ chargeTemp = ""
    /\ roastType = "Medium"
    /\ beanOrigin = ""
    /\ roastedWeight = ""
    /\ roastNotes = ""
    /\ localStorage = NoItem
    /\ timerInterval = FALSE

(***************************************************************************)
(* Navigation bar (rendered in every view).                                *)
(***************************************************************************)
\* The component is rendered.  An error thrown by an effect, with no error
\* boundary around App, makes React remove the whole tree: the page is blank
\* and no control is left until it is loaded again.
Mounted == appState # "unmounted"

NavSetup ==
    /\ Mounted
    /\ appState' = "setup"
    /\ UNCHANGED <<sessionVars, setupVars, completionVars, archiveVars>>

\* The Roast button without its disabled attribute.
NavRoastAlwaysEnabled == TRUE

\* disabled={!greenWeight || !chargeTemp}
NavRoastEnabled == Truthy(greenWeight) /\ Truthy(chargeTemp)

NavRoast ==
    /\ Mounted
    /\ NavRoastEnabled
    /\ appState' = "roasting"
    /\ UNCHANGED <<sessionVars, setupVars, completionVars, archiveVars>>

NavHistory ==
    /\ Mounted
    /\ appState' = "history"
    /\ UNCHANGED <<sessionVars, setupVars, completionVars, archiveVars>>

(***************************************************************************)
(* Setup view.                                                             *)
(***************************************************************************)
SetGreenWeight(v) ==
    /\ appState = "setup"
    /\ greenWeight' = v
    /\ UNCHANGED <<appState, sessionVars, ambientTemp, chargeTemp, roastType,
                   beanOrigin, completionVars, archiveVars>>

SetAmbientTemp(v) ==
    /\ appState = "setup"
    /\ ambientTemp' = v
    /\ UNCHANGED <<appState, sessionVars, greenWeight, chargeTemp, roastType,
                   beanOrigin, completionVars, archiveVars>>

SetChargeTemp(v) ==
    /\ appState = "setup"
    /\ chargeTemp' = v
    /\ UNCHANGED <<appState, sessionVars, greenWeight, ambientTemp, roastType,
                   beanOrigin, completionVars, archiveVars>>

SetRoastType(v) ==
    /\ appState = "setup"
    /\ roastType' = v
    /\ UNCHANGED <<appState, sessionVars, greenWeight, ambientTemp, chargeTemp,
                   beanOrigin, completionVars, archiveVars>>

SetBeanOrigin(v) ==
    /\ appState = "setup"
    /\ beanOrigin' = v
    /\ UNCHANGED <<appState, sessionVars, greenWeight, ambientTemp, chargeTemp,
                   roastType, completionVars, archiveVars>>

\* The Begin Roasting Session button: disabled={!greenWeight || !chargeTemp}
StartEnabled == Truthy(greenWeight) /\ Truthy(chargeTemp)

\* startRoast() with a setRoastTimer(0) added.
startRoastFromZero ==
    /\ appState = "setup"
    /\ StartEnabled
    /\ isTimerRunning' = TRUE
    /\ appState' = "roasting"
    /\ roastTimer' = 0
    /\ temperatureReadings' =
          IF Truthy(chargeTemp)
          THEN <<[time |-> 0, temperature |-> parseFloat(chargeTemp)]>>
          ELSE temperatureReadings
    /\ timerInterval' = TimerEffect(timerInterval, isTimerRunning')
    /\ UNCHANGED <<firstCrackTime, currentTemp, setupVars, completionVars,
                   archiveVars>>

\* startRoast()
startRoast ==
    /\ appState = "setup"
    /\ StartEnabled
    /\ isTimerRunning' = TRUE
    /\ appState' = "roasting"
    /\ temperatureReadings' =
          IF Truthy(chargeTemp)
          THEN <<[time |-> 0, temperature |-> parseFloat(chargeTemp)]>>
          ELSE temperatureReadings
    /\ timerInterval' = TimerEffect(timerInterval, isTimerRunning')
    /\ UNCHANGED <<roastTimer, firstCrackTime, currentTemp, setupVars,
                   completionVars, archiveVars>>

(***************************************************************************)
(* The interval callback: setRoastTimer(prev => prev + 1).                 *)
(***************************************************************************)
Tick ==
    /\ timerInterval
    /\ roastTimer < MaxTimer
    /\ roastTimer' = roastTimer + 1
    /\ UNCHANGED <<appState, isTimerRunning, firstCrackTime, temperatureReadings,
                   currentTemp, timerInterval, setupVars, completionVars,
                   archiveVars>>

(***************************************************************************)
(* Roasting view.                                                          *)
(***************************************************************************)
\* stopRoast(), the Pause/Start button while isTimerRunning
stopRoast ==
    /\ appState = "roasting"
    /\ isTimerRunning
    /\ isTimerRunning' = FALSE
    /\ timerInterval' = TimerEffect(timerInterval, isTimerRunning')
    /\ UNCHANGED <<appState, roastTimer, firstCrackTime, temperatureReadings,
                   currentTemp, setupVars, completionVars, archiveVars>>

\* The Start button rendered in every view.
resumeRoastAnywhere ==
    /\ Mounted
    /\ ~isTimerRunning
    /\ isTimerRunning' = TRUE
    /\ timerInterval' = TimerEffect(timerInterval, isTimerRunning')
    /\ UNCHANGED <<appState, roastTimer, firstCrackTime, temperatureReadings,
                   currentTemp, setupVars, completionVars, archiveVars>>

\* () => setIsTimerRunning(true), the Pause/Start button while not running
resumeRoast ==
    /\ appState = "roasting"
    /\ ~isTimerRunning
    /\ isTimerRunning' = TRUE
    /\ timerInterval' = TimerEffect(timerInterval, isTimerRunning')
    /\ UNCHANGED <<appState, roastTimer, firstCrackTime, temperatureReadings,
                   currentTemp, setupVars, completionVars, archiveVars>>

\* The button guarded by !firstCrackTime instead: a first crack at 0 reads as none.
FirstCrackEnabledFalsy == isTimerRunning /\ NoFirstCrack(firstCrackTime)

\* The button without the !isTimerRunning half of its disabled attribute.
FirstCrackEnabledPaused == firstCrackTime = Null

\* The 1st Crack button: disabled={!isTimerRunning || firstCrackTime !== null}
FirstCrackEnabled == isTimerRunning /\ firstCrackTime = Null

\* markFirstCrack() setting the second that is about to begin.
markFirstCrackNextSecond ==
    /\ appState = "roasting"
    /\ FirstCrackEnabled
    /\ firstCrackTime' = roastTimer + 1
    /\ UNCHANGED <<appState, roastTimer, isTimerRunning, temperatureReadings,
                   currentTemp, timerInterval, setupVars, completionVars,
                   archiveVars>>

\* markFirstCrack()
markFirstCrack ==
    /\ appState = "roasting"
    /\ FirstCrackEnabled
    /\ firstCrackTime' = roastTimer
    /\ UNCHANGED <<appState, roastTimer, isTimerRunning, temperatureReadings,
                   currentTemp, timerInterval, setupVars, completionVars,
                   archiveVars>>

\* resetRoast() without setTemperatureReadings([]).
ResetSessionKeepsReadings ==
    /\ isTimerRunning' = FALSE
    /\ roastTimer' = 0
    /\ firstCrackTime' = Null
    /\ temperatureReadings' = temperatureReadings
    /\ currentTemp' = ""
    /\ appState' = "setup"
    /\ timerInterval' = TimerEffect(timerInterval, isTimerRunning')

\* resetRoast()'s assignments, shared with saveRoast()
ResetSession ==
    /\ isTimerRunning' = FALSE
    /\ roastTimer' = 0
    /\ firstCrackTime' = Null
    /\ temperatureReadings' = <<>>
    /\ currentTemp' = ""
    /\ appState' = "setup"
    /\ timerInterval' = TimerEffect(timerInterval, isTimerRunning')

\* resetRoast(), the Reset button
resetRoast ==
    /\ appState = "roasting"
    /\ ResetSession
    /\ UNCHANGED <<setupVars, completionVars, archiveVars>>

SetCurrentTemp(v) ==
    /\ appState = "roasting"
    /\ currentTemp' = v
    /\ UNCHANGED <<appState, roastTimer, isTimerRunning, firstCrackTime,
                   temperatureReadings, timerInterval, setupVars, completionVars,
                   archiveVars>>

\* The check without its isNaN half.
ValidTempNonEmpty(s) == Truthy(s)

\* currentTemp && !isNaN(parseFloat(currentTemp))
ValidTemp(s) == Truthy(s) /\ ~isNaN(parseFloat(s))

\* addTemperatureReading(): the handler re-validates currentTemp itself
addTemperatureReading ==
    /\ appState = "roasting"
    /\ IF ValidTemp(currentTemp)
       THEN /\ Len(temperatureReadings) < MaxReadings
            /\ temperatureReadings' =
                  Append(temperatureReadings,
                         [time |-> roastTimer,
                          temperature |-> parseFloat(currentTemp)])
            /\ currentTemp' = ""
       ELSE UNCHANGED <<temperatureReadings, currentTemp>>
    /\ UNCHANGED <<appState, roastTimer, isTimerRunning, firstCrackTime,
                   timerInterval, setupVars, completionVars, archiveVars>>

\* finishRoast() without setIsTimerRunning(false).
finishRoastKeepsRunning ==
    /\ appState = "roasting"
    /\ appState' = "completion"
    /\ UNCHANGED <<sessionVars, setupVars, completionVars, archiveVars>>

\* finishRoast(), the Complete Roast button
finishRoast ==
    /\ appState = "roasting"
    /\ isTimerRunning' = FALSE
    /\ appState' = "completion"
    /\ timerInterval' = TimerEffect(timerInterval, isTimerRunning')
    /\ UNCHANGED <<roastTimer, firstCrackTime, temperatureReadings, currentTemp,
                   setupVars, completionVars, archiveVars>>

(***************************************************************************)
(* Completion view.                                                        *)
(***************************************************************************)
SetRoastedWeight(v) ==
    /\ appState = "completion"
    /\ roastedWeight' = v
    /\ UNCHANGED <<appState, sessionVars, setupVars, roastNotes, archiveVars>>

\* The Generate Summary button: disabled={!roastedWeight}
SummaryEnabled == Truthy(roastedWeight)

\* proceedToSummary()
proceedToSummary ==
    /\ appState = "completion"
    /\ SummaryEnabled
    /\ appState' = "summary"
    /\ UNCHANGED <<sessionVars, setupVars, completionVars, archiveVars>>

(***************************************************************************)
(* Summary view.                                                           *)
(***************************************************************************)
SetRoastNotes(v) ==
    /\ appState = "summary"
    /\ roastNotes' = v
    /\ UNCHANGED <<appState, sessionVars, setupVars, roastedWeight, archiveVars>>

\* The share of the green weight that is left, in place of the share lost.
WeightRetained(green, roasted) ==
    JsMul(JsDiv(parseFloat(roasted), parseFloat(green)), Num(100))

\* saveRoast()'s weightLoss
WeightLoss(green, roasted) ==
    JsMul(JsDiv(JsSub(parseFloat(green), parseFloat(roasted)), parseFloat(green)),
          Num(100))

\* saveRoast()'s roastData with the live developmentPercent left at 0.
RoastDataNoPercent(now) ==
    [id |-> now,
     date |-> now,
     greenWeight |-> parseFloat(greenWeight),
     roastedWeight |-> parseFloat(roastedWeight),
     ambientTemp |-> parseFloat(ambientTemp),
     chargeTemp |-> parseFloat(chargeTemp),
     roastType |-> roastType,
     beanOrigin |-> beanOrigin,
     totalTime |-> roastTimer,
     firstCrackTime |-> IF NoFirstCrack(firstCrackTime) THEN 0 ELSE firstCrackTime,
     developmentPercent |-> Num(0),
     weightLoss |-> WeightLoss(greenWeight, roastedWeight),
     notes |-> roastNotes,
     temperatureReadings |-> temperatureReadings]

\* saveRoast()'s roastData; now is what Date.now() returns, and id and date
\* stand for its decimal and ISO texts
RoastData(now) ==
    [id |-> now,
     date |-> now,
     greenWeight |-> parseFloat(greenWeight),
     roastedWeight |-> parseFloat(roastedWeight),
     ambientTemp |-> parseFloat(ambientTemp),
     chargeTemp |-> parseFloat(chargeTemp),
     roastType |-> roastType,
     beanOrigin |-> beanOrigin,
     totalTime |-> roastTimer,
     firstCrackTime |-> IF NoFirstCrack(firstCrackTime) THEN 0 ELSE firstCrackTime,
     developmentPercent |-> getDevelopmentPercent,
     weightLoss |-> WeightLoss(greenWeight, roastedWeight),
     notes |-> roastNotes,
     temperatureReadings |-> temperatureReadings]

\* saveRoast() without its resetRoast() call.
saveRoastKeepsSession(now) ==
    /\ appState = "summary"
    /\ Len(roastHistory) < MaxHistory
    /\ LET updatedHistory == Append(roastHistory, RoastData(now))
       IN  /\ roastHistory' = updatedHistory
           /\ localStorage' = Item(JSONstringify(updatedHistory))
    /\ UNCHANGED <<appState, sessionVars, setupVars, completionVars>>

\* saveRoast(), the Save Roast Profile button
saveRoast(now) ==
    /\ appState = "summary"
    /\ Len(roastHistory) < MaxHistory
    /\ LET updatedHistory == Append(roastHistory, RoastData(now))
       IN  /\ roastHistory' = updatedHistory
           /\ localStorage' = Item(JSONstringify(updatedHistory))
    /\ ResetSession
    /\ UNCHANGED <<setupVars, completionVars>>

(***************************************************************************)
(* History view.                                                           *)
(***************************************************************************)
\* The filter with === for !==.
FilterOutInverted(history, id) == SelectSeq(history, LAMBDA roast: roast.id = id)

\* roastHistory.filter(roast => roast.id !== id)
FilterOut(history, id) == SelectSeq(history, LAMBDA roast: roast.id # id)

\* deleteRoast(id) writing roastHistory, the state of the last render, in
\* place of updatedHistory.
deleteRoastWritesStale(id) ==
    /\ appState = "history"
    /\ roastHistory' = FilterOut(roastHistory, id)
    /\ localStorage' = Item(JSONstringify(roastHistory))
    /\ UNCHANGED <<appState, sessionVars, setupVars, completionVars>>

\* deleteRoast(id)
deleteRoast(id) ==
    /\ appState = "history"
    /\ LET updatedHistory == FilterOut(roastHistory, id)
       IN  /\ roastHistory' = updatedHistory
           /\ localStorage' = Item(JSONstringify(updatedHistory))
    /\ UNCHANGED <<appState, sessionVars, setupVars, completionVars>>

\* clearAllRoasts(), rendered when roastHistory.length > 0
clearAllRoasts ==
    /\ appState = "history"
    /\ Len(roastHistory) > 0
    /\ roastHistory' = <<>>
    /\ localStorage' = NoItem
    /\ UNCHANGED <<appState, sessionVars, setupVars, completionVars>>

(***************************************************************************)
(* Page load: every useState cell takes its initial value, the interval of *)
(* the unloaded page is gone, and the mount effect loads the archive.      *)
(***************************************************************************)
\* The load effect: getItem, and JSON.parse when the item is there
LoadHistory(storage) ==
    IF storage.present THEN JSONparse(storage.text) ELSE <<>>

\* The load effect throws what JSON.parse throws.
LoadThrows(storage) == JSONparseThrows(storage)

Reload ==
    /\ appState' = IF LoadThrows(localStorage) THEN "unmounted" ELSE "setup"
    /\ roastTimer' = 0
    /\ isTimerRunning' = FALSE
    /\ firstCrackTime' = Null
    /\ temperatureReadings' = <<>>
    /\ currentTemp' = ""
    /\ greenWeight' = ""
    /\ ambientTemp' = ""
    /\ chargeTemp' = ""
    /\ roastType' = "Medium"
    /\ beanOrigin' = ""
    /\ roastedWeight' = ""
    /\ roastNotes' = ""
    /\ timerInterval' = FALSE
    /\ roastHistory' =
          IF LoadThrows(localStorage) THEN <<>> ELSE LoadHistory(localStorage)
    /\ UNCHANGED localStorage

(***************************************************************************)
(* The environment: localStorage is shared by every script of the origin   *)
(* and editable by the user, and its setItem throws when the quota is      *)
(* exceeded.                                                               *)
(***************************************************************************)
ExternalItems == {NoItem, NotJson}

\* The entry 'roastHistory' is written or removed outside the component.
StorageWrittenElsewhere(item) ==
    /\ localStorage # item
    /\ localStorage' = item
    /\ UNCHANGED <<appState, sessionVars, setupVars, completionVars, roastHistory>>

\* saveRoast() when setItem throws: setRoastHistory has been called, the
\* exception leaves the handler before resetRoast().
saveRoastStorageFails(now) ==
    /\ appState = "summary"
    /\ Len(roastHistory) < MaxHistory
    /\ roastHistory' = Append(roastHistory, RoastData(now))
    /\ UNCHANGED <<appState, sessionVars, setupVars, completionVars, localStorage>>

\* deleteRoast(id) when setItem throws: setRoastHistory has been called.
deleteRoastStorageFails(id) ==
    /\ appState = "history"
    /\ roastHistory' = FilterOut(roastHistory, id)
    /\ UNCHANGED <<appState, sessionVars, setupVars, completionVars, localStorage>>

(***************************************************************************)
(* Specifications.  The archive keeps a copy of every field of a saved     *)
(* session, so the two halves of the component are explored apart:         *)
(* SessionSpec runs the session (every input, the timer, first crack, the  *)
(* readings, the views, the page load) up to the summary, without saving;  *)
(* ArchiveSpec runs whole sessions in which no second elapses and the      *)
(* profile, origin and notes keep their defaults, into the archive and     *)
(* back from localStorage.                                                 *)
(***************************************************************************)
SessionNext ==
    \/ NavSetup
    \/ NavRoast
    \/ NavHistory
    \/ \E v \in GreenWeightInputs: SetGreenWeight(v)
    \/ \E v \in AmbientTempInputs: SetAmbientTemp(v)
    \/ \E v \in ChargeTempInputs: SetChargeTemp(v)
    \/ \E v \in RoastTypeOptions: SetRoastType(v)
    \/ \E v \in BeanOriginInputs: SetBeanOrigin(v)
    \/ startRoast
    \/ Tick
    \/ stopRoast
    \/ resumeRoast
    \/ markFirstCrack
    \/ resetRoast
    \/ \E v \in CurrentTempInputs: SetCurrentTemp(v)
    \/ addTemperatureReading
    \/ finishRoast
    \/ \E v \in RoastedWeightInputs: SetRoastedWeight(v)
    \/ proceedToSummary
    \/ \E v \in RoastNotesInputs: SetRoastNotes(v)
    \/ Reload

SessionSpec == Init /\ [][SessionNext]_vars

ArchiveNext ==
    \/ NavSetup
    \/ NavRoast
    \/ NavHistory
    \/ \E v \in GreenWeightInputs: SetGreenWeight(v)
    \/ \E v \in AmbientTempInputs: SetAmbientTemp(v)
    \/ \E v \in ChargeTempInputs: SetChargeTemp(v)
    \/ startRoast
    \/ finishRoast
    \/ \E v \in RoastedWeightInputs: SetRoastedWeight(v)
    \/ proceedToSummary
    \/ \E now \in Now: saveRoast(now)
    \/ \E id \in Now: deleteRoast(id)
    \/ clearAllRoasts
    \/ Reload

ArchiveSpec == Init /\ [][ArchiveNext]_vars

\* The setup form alone, over green weights and charge temperatures that
\* reach every branch of getPredictions.
PredictNext ==
    \/ \E v \in PredictWeightInputs: SetGreenWeight(v)
    \/ \E v \in PredictChargeInputs: SetChargeTemp(v)
    \/ \E v \in RoastTypeOptions: SetRoastType(v)

PredictSpec == Init /\ [][PredictNext]_vars

\* Sessions without timer ticks, up to the summary and back to setup by the
\* Reset button, over every kind of final weight.
CompletionNext ==
    \/ NavSetup
    \/ NavRoast
    \/ NavHistory
    \/ \E v \in GreenWeightInputs: SetGreenWeight(v)
    \/ \E v \in ChargeTempInputs: SetChargeTemp(v)
    \/ startRoast
    \/ resetRoast
    \/ finishRoast
    \/ \E v \in FinalWeightInputs: SetRoastedWeight(v)
    \/ proceedToSummary
    \/ \E v \in RoastNotesInputs: SetRoastNotes(v)

CompletionSpec == Init /\ [][CompletionNext]_vars

\* Timed sessions (ticks, first crack, readings, pause and resume, reset)
\* saved into the archive, one record at a time: the archive keeps a copy
\* of the whole session, so a session runs while the archive is empty, and
\* a saved record is looked at, deleted or cleared before the next one.
EmptyArchive == roastHistory = <<>>

RecordNext ==
    \/ NavSetup
    \/ NavRoast
    \/ NavHistory
    \/ EmptyArchive /\ \E v \in GreenWeightInputs: SetGreenWeight(v)
    \/ EmptyArchive /\ \E v \in ChargeTempInputs: SetChargeTemp(v)
    \/ EmptyArchive /\ startRoast
    \/ EmptyArchive /\ Tick
    \/ EmptyArchive /\ stopRoast
    \/ EmptyArchive /\ resumeRoast
    \/ EmptyArchive /\ markFirstCrack
    \/ EmptyArchive /\ resetRoast
    \/ EmptyArchive /\ \E v \in CurrentTempInputs: SetCurrentTemp(v)
    \/ EmptyArchive /\ addTemperatureReading
    \/ EmptyArchive /\ finishRoast
    \/ EmptyArchive /\ \E v \in RoastedWeightInputs: SetRoastedWeight(v)
    \/ EmptyArchive /\ proceedToSummary
    \/ EmptyArchive /\ \E now \in Now: saveRoast(now)
    \/ \E id \in Now: deleteRoast(id)
    \/ clearAllRoasts

RecordSpec == Init /\ [][RecordNext]_vars

\* Whole sessions as in ArchiveSpec, ambientTemp left empty, with the
\* environment acting on localStorage.
FaultNext ==
    \/ NavSetup
    \/ NavRoast
    \/ NavHistory
    \/ \E v \in GreenWeightInputs: SetGreenWeight(v)
    \/ \E v \in ChargeTempInputs: SetChargeTemp(v)
    \/ startRoast
    \/ finishRoast
    \/ \E v \in RoastedWeightInputs: SetRoastedWeight(v)
    \/ proceedToSummary
    \/ \E now \in Now: saveRoast(now)
    \/ \E now \in Now: saveRoastStorageFails(now)
    \/ \E id \in Now: deleteRoast(id)
    \/ \E id \in Now: deleteRoastStorageFails(id)
    \/ clearAllRoasts
    \/ \E item \in ExternalItems: StorageWrittenElsewhere(item)
    \/ Reload

FaultSpec == Init /\ [][FaultNext]_vars

(***************************************************************************)
(* Properties.                                                             *)
(***************************************************************************)
\* A step that ends the session: resetRoast's assignments (the Reset button,
\* saveRoast) or a page load.
SessionEnds ==
    /\ appState' = "setup"
    /\ roastTimer' = 0
    /\ firstCrackTime' = Null
    /\ temperatureReadings' = <<>>
    /\ ~isTimerRunning'

\* C1: within a session the first crack is set at most once: once
\* firstCrackTime is set (to 0 included), no step is a markFirstCrack and
\* every step keeps its value, until the session ends.
FirstCrackMarkedOnce ==
    [][firstCrackTime # Null =>
          /\ ~markFirstCrack
          /\ firstCrackTime' = firstCrackTime \/ SessionEnds]_vars

\* C1 witness: first crack was marked at 0, the timer has advanced since and
\* is running in the roasting view, where the 1st Crack button is rendered.
FirstCrackAtZeroKept ==
    /\ appState = "roasting"
    /\ isTimerRunning
    /\ firstCrackTime = 0
    /\ roastTimer > 0

\* C2: no interval is registered while isTimerRunning is false, so no tick
\* is delivered then; and roastTimer changes only by a tick of exactly 1
\* taken while isTimerRunning is true, or by the session ending.
PausedTimerHolds ==
    /\ [](timerInterval => isTimerRunning)
    /\ [][roastTimer' # roastTimer =>
             \/ isTimerRunning /\ roastTimer' = roastTimer + 1
             \/ SessionEnds]_vars

\* C2 witness: the timer has run and is paused in the roasting view.
PausedAfterTicks ==
    /\ appState = "roasting"
    /\ ~isTimerRunning
    /\ ~timerInterval
    /\ roastTimer > 0

\* C3: isTimerRunning implies that the stage is active (the roasting view).
RunningOnlyWhileRoasting == isTimerRunning => appState = "roasting"

\* C4: the stage moves only along setup -> roasting -> completion ->
\* summary, or back to setup by a reset: roasting is entered only by
\* startRoast from setup and left only by finishRoast or a reset, completion
\* is entered only from roasting, summary only from completion.
StageChain ==
    [][/\ (appState' = "roasting" /\ appState # "roasting") =>
             (appState = "setup" /\ startRoast)
       /\ (appState = "roasting" /\ appState' # "roasting") =>
             (appState' = "completion" \/ SessionEnds)
       /\ (appState' = "completion" /\ appState # "completion") =>
             appState = "roasting"
       /\ (appState' = "summary" /\ appState # "summary") =>
             appState = "completion"]_vars

\* C5: every startRoast step (not counting one that changes nothing but the
\* view, as the Roast button does) ends in the roasting view with the timer
\* running at 0, no first crack and the single reading {0, chargeTemp}.
StartBeginsFreshSession ==
    [][(startRoast /\ ~NavRoast) =>
          /\ appState' = "roasting"
          /\ isTimerRunning'
          /\ roastTimer' = 0
          /\ firstCrackTime' = Null
          /\ temperatureReadings' =
                <<[time |-> 0, temperature |-> parseFloat(chargeTemp)]>>]_vars

\* C6: the roasting view is never occupied with greenWeight or chargeTemp
\* empty, and startRoast cannot be taken while either is empty.
RoastingHasInputs ==
    /\ appState = "roasting" => (greenWeight # "" /\ chargeTemp # "")
    /\ (greenWeight = "" \/ chargeTemp = "") => ~ENABLED startRoast

\* C6 witness: a session started from the setup view, both fields filled.
RoastingStarted ==
    /\ appState = "roasting"
    /\ isTimerRunning
    /\ Len(temperatureReadings) = 1
    /\ greenWeight = "400"
    /\ chargeTemp = "200"

\* C7: getDevelopmentPercent() is 0 when first crack was never marked and
\* otherwise round(100 * (roastTimer - firstCrackTime) / roastTimer).
DevelopmentPercentFormula ==
    IF firstCrackTime = Null
    THEN getDevelopmentPercent = Num(0)
    ELSE roastTimer > 0 =>
            getDevelopmentPercent =
               MathRound(Rat(100 * (roastTimer - firstCrackTime), roastTimer))

\* C8: after saveRoast, the archive loaded from localStorage ends with a
\* record equal in every field to the record made of the session.
SavedRecordRoundTrips ==
    [][\A now \in Now:
          saveRoast(now) =>
             LET loaded == LoadHistory(localStorage')
             IN  /\ Len(loaded) = Len(roastHistory) + 1
                 /\ loaded[Len(loaded)] = RoastData(now)]_vars

\* C9: in the roasting view temperatureReadings changes only by appending
\* the one reading {roastTimer, parseFloat(currentTemp)} of a currentTemp
\* that parses to a finite number, with the timer, the running flag, first
\* crack and the view unchanged: an empty or non-numeric currentTemp leaves
\* the readings as they are.
LogTemperatureContract ==
    [][(appState = "roasting" /\ temperatureReadings' # temperatureReadings
           /\ ~SessionEnds) =>
          /\ IsFinite(parseFloat(currentTemp))
          /\ Len(temperatureReadings') = Len(temperatureReadings) + 1
          /\ SubSeq(temperatureReadings', 1, Len(temperatureReadings))
                = temperatureReadings
          /\ temperatureReadings'[Len(temperatureReadings')] =
                [time |-> roastTimer, temperature |-> parseFloat(currentTemp)]
          /\ UNCHANGED <<appState, roastTimer, isTimerRunning, firstCrackTime>>]_vars

\* C9 witness: a valid reading was appended after the charge reading, at a
\* later second, and a non-numeric text is now in the field.
ReadingLoggedThenGarbageTyped ==
    /\ appState = "roasting"
    /\ Len(temperatureReadings) = 2
    /\ temperatureReadings[2] = [time |-> 1, temperature |-> Num(210)]
    /\ currentTemp = "abc"

\* The records of history whose id is not id, in their order.
RECURSIVE Remaining(_, _)
Remaining(history, id) ==
    IF history = <<>> THEN <<>>
    ELSE IF Head(history).id = id THEN Remaining(Tail(history), id)
    ELSE <<Head(history)>> \o Remaining(Tail(history), id)

\* C10: deleteRoast(id) leaves exactly the records whose id is not id, in
\* their order, and leaves the archive as it is when no record has that id.
DeleteRemovesById ==
    [][\A id \in Now:
          deleteRoast(id) =>
             /\ roastHistory' = Remaining(roastHistory, id)
             /\ (\A i \in 1..Len(roastHistory): roastHistory[i].id # id) =>
                   roastHistory' = roastHistory]_vars

\* C10 witness: the archive is empty while localStorage holds the text of an
\* empty archive: only deleteRoast writes it (clearAllRoasts removes the
\* item, saveRoast writes a record).
ArchiveEmptiedByDelete ==
    /\ appState = "history"
    /\ roastHistory = <<>>
    /\ localStorage = Item(<<>>)
    /\ ~ENABLED clearAllRoasts

\* C11: whatever the green weight and the charge temperature (empty ones
\* count as 0), getPredictions() gives a totalTime of at least 600 and a
\* firstCrack of at least 480.
PredictionFloors ==
    /\ JsGe(getPredictions.totalTime, Num(600))
    /\ JsGe(getPredictions.firstCrack, Num(480))

\* C11 witness: a charge temperature far below 200 with an empty green
\* weight, where both estimates fall below their floors and the floors are
\* returned.
PredictionsFloored ==
    /\ greenWeight = ""
    /\ chargeTemp = "-1000"
    /\ getPredictions.totalTime = Num(600)
    /\ getPredictions.firstCrack = Num(480)

\* C12: every record of the archive carries as weightLoss the quotient
\* 100 * (greenWeight - roastedWeight) / greenWeight of its own two weights,
\* which is 15 for 400 and 340.
WeightLossOfRecord ==
    \A i \in 1..Len(roastHistory):
       LET r == roastHistory[i]
       IN  /\ r.weightLoss =
                 JsDiv(JsMul(Num(100), JsSub(r.greenWeight, r.roastedWeight)),
                       r.greenWeight)
           /\ (r.greenWeight = Num(400) /\ r.roastedWeight = Num(340)) =>
                 r.weightLoss = Num(15)

\* C12 witness: a record of 400 g green and 340 g roasted is in the archive,
\* as saved and as written to localStorage.
RecordOf400And340 ==
    /\ Len(roastHistory) > 0
    /\ roastHistory[1].greenWeight = Num(400)
    /\ roastHistory[1].roastedWeight = Num(340)
    /\ localStorage = Item(JSONstringify(roastHistory))

\* C13: a resetRoast step (not counting one that changes nothing but the
\* view, as the Setup button does) ends in the setup view with the timer
\* stopped at 0, no first crack, no readings, and with greenWeight,
\* ambientTemp, chargeTemp, beanOrigin, roastedWeight and roastNotes empty.
ResetClearsEverything ==
    [][(resetRoast /\ ~NavSetup) =>
          /\ appState' = "setup"
          /\ ~isTimerRunning'
          /\ roastTimer' = 0
          /\ firstCrackTime' = Null
          /\ temperatureReadings' = <<>>
          /\ greenWeight' = ""
          /\ ambientTemp' = ""
          /\ chargeTemp' = ""
          /\ beanOrigin' = ""
          /\ roastedWeight' = ""
          /\ roastNotes' = ""]_vars

\* C14: a page load never fails: it ends in the setup view, with an empty
\* archive when the entry is absent or its text does not parse.
LoadNeverFails ==
    [][Reload =>
          /\ appState' = "setup"
          /\ (~localStorage.present \/ ~localStorage.json) => roastHistory' = <<>>]_vars

\* C15: the phase is development whenever a first crack is marked and
\* roastTimer has reached it (a first crack marked at 0 included), and
\* drying exactly when no first crack is marked.
PhaseFollowsFirstCrack ==
    /\ (firstCrackTime # Null /\ roastTimer >= firstCrackTime) =>
          getCurrentPhase = "development"
    /\ getCurrentPhase = "drying" <=> firstCrackTime = Null

\* C16: getRateOfRise() is 0 with fewer than two readings, 0 when the last
\* two readings carry the same time, and never NaN or infinite.
RateOfRiseGuarded ==
    LET n == Len(temperatureReadings)
    IN  /\ n < 2 => getRateOfRise = Num(0)
        /\ (n >= 2 /\ temperatureReadings[n].time = temperatureReadings[n - 1].time)
              => getRateOfRise = Num(0)
        /\ IsFinite(getRateOfRise)

\* C17: the summary view is occupied only with a roastedWeight that parses
\* to a finite number above 0, and the completion view is entered with no
\* roastedWeight, so that the one the summary shows was typed in the
\* completion view of this session.
SummaryHasOwnPositiveWeight ==
    /\ [](appState = "summary" =>
             /\ IsFinite(parseFloat(roastedWeight))
             /\ JsGt(parseFloat(roastedWeight), Num(0)))
    /\ [][(appState' = "completion" /\ appState # "completion") =>
             roastedWeight' = ""]_vars

\* C18: a localStorage write that throws leaves the component as the same
\* operation leaves it when the write succeeds: a save still appends its
\* record exactly once and resets the session to setup (where no Save
\* button is left to repeat it for the same roast), a delete still removes
\* the record.
StorageFailureHarmless ==
    [][/\ \A now \in Now:
             saveRoastStorageFails(now) =>
                /\ roastHistory' = Append(roastHistory, RoastData(now))
                /\ SessionEnds
       /\ \A id \in Now:
             deleteRoastStorageFails(id) =>
                /\ roastHistory' = FilterOut(roastHistory, id)
                /\ UNCHANGED <<appState, sessionVars>>]_vars

\* C20: the readings are ordered by time: their times do not decrease along
\* the sequence, and none is later than roastTimer.
LogOrderedByTime ==
    /\ \A i \in 1..Len(temperatureReadings):
          temperatureReadings[i].time <= roastTimer
    /\ \A i, j \in 1..Len(temperatureReadings):
          i < j => temperatureReadings[i].time <= temperatureReadings[j].time

\* C20 witness: in the roasting view with the timer paused, a reading taken
\* at the current second follows the charge reading of second 0.
LoggedLaterWhilePaused ==
    /\ appState = "roasting"
    /\ ~isTimerRunning
    /\ roastTimer > 0
    /\ Len(temperatureReadings) = 2
    /\ temperatureReadings[1].time = 0
    /\ temperatureReadings[2].time = roastTimer

\* C19: the record saveRoast appends is a snapshot of the session as
\* finishRoast left it: no tick can arrive in the completion and summary
\* views, no step within them changes roastTimer, firstCrackTime or the
\* readings, and the record carries roastTimer as totalTime, the readings,
\* and firstCrackTime, or 0 when no first crack was marked.
SavedRecordIsSnapshot ==
    /\ [](appState \in {"completion", "summary"} =>
             ~isTimerRunning /\ ~timerInterval)
    /\ [][(appState \in {"completion", "summary"}
              /\ appState' \in {"completion", "summary"}) =>
             UNCHANGED <<roastTimer, firstCrackTime, temperatureReadings>>]_vars
    /\ [][\A now \in Now:
             saveRoast(now) =>
                LET r == roastHistory'[Len(roastHistory')]
                IN  /\ r.totalTime = roastTimer
                    /\ r.temperatureReadings = temperatureReadings
                    /\ r.firstCrackTime =
                          IF firstCrackTime = Null THEN 0 ELSE firstCrackTime]_vars

\* C19 witness: the archive holds the record of a session that ran for some
\* seconds, with a first crack after second 0 and a logged reading.
TimedSessionSaved ==
    /\ appState = "setup"
    /\ Len(roastHistory) > 0
    /\ roastHistory[1].totalTime > roastHistory[1].firstCrackTime
    /\ roastHistory[1].firstCrackTime > 0
    /\ Len(roastHistory[1].temperatureReadings) = 2

\* C21: a first crack that is set lies between 0 and roastTimer, and it
\* becomes set only in the roasting view with the timer running, to the
\* roastTimer of that moment.
FirstCrackWithinElapsed ==
    /\ [](firstCrackTime # Null =>
             (0 <= firstCrackTime /\ firstCrackTime <= roastTimer))
    /\ [][(firstCrackTime = Null /\ firstCrackTime' # Null) =>
             /\ appState = "roasting"
             /\ isTimerRunning
             /\ firstCrackTime' = roastTimer]_vars

\* C21 witness: a first crack marked after second 0, the timer paused
\* later on, where the 1st Crack button is disabled for both reasons.
FirstCrackBehindPausedTimer ==
    /\ appState = "roasting"
    /\ ~isTimerRunning
    /\ firstCrackTime = 1
    /\ roastTimer = 2

\* C22: every step leaves roastTimer as it is or one larger, except a
\* resetRoast (the Reset button, or the one inside saveRoast), which sets
\* it to 0.
TimerNeverRunsBack ==
    [][\/ roastTimer' = roastTimer
       \/ roastTimer' = roastTimer + 1
       \/ /\ roastTimer' = 0
          /\ resetRoast \/ \E now \in Now: saveRoast(now)]_vars

\* C22 witness: a session that ran for some seconds was saved, and the
\* timer is back at 0 in the setup view.
TimerBackAtZeroAfterSave ==
    /\ appState = "setup"
    /\ roastTimer = 0
    /\ Len(roastHistory) = 1
    /\ roastHistory[1].totalTime = 2

\* What a page load would read from the entry storage, set against the
\* archive history: as many records, each the JSON text of the record at
\* the same place.
Mirrors(storage, history) ==
    LET loaded == LoadHistory(storage)
    IN  /\ Len(loaded) = Len(history)
        /\ \A i \in 1..Len(history): loaded[i] = JsonRoast(history[i])

\* C23: after saveRoast localStorage holds the previous archive with the
\* new record at its end, after deleteRoast the archive without the records
\* of that id, in their order, after clearAllRoasts no entry, and in each
\* case what a page load would read mirrors the archive in memory.
StoreMirrorsArchive ==
    [][/\ \A now \in Now:
             saveRoast(now) =>
                /\ LoadHistory(localStorage') =
                      JSONstringify(roastHistory) \o <<JsonRoast(RoastData(now))>>
                /\ Mirrors(localStorage', roastHistory')
       /\ \A id \in Now:
             deleteRoast(id) =>
                /\ LoadHistory(localStorage') =
                      Remaining(JSONstringify(roastHistory), id)
                /\ Mirrors(localStorage', roastHistory')
       /\ clearAllRoasts =>
             /\ ~localStorage'.present
             /\ LoadHistory(localStorage') = <<>>
             /\ Mirrors(localStorage', roastHistory')]_vars

\* C23 witness: two sessions were saved, the second under the smaller id:
\* localStorage holds both records in the order of the archive, the first
\* with the null that JSON writes for its NaN ambientTemp.
StoreFollowsAppends ==
    /\ Len(roastHistory) = 2
    /\ roastHistory[1].id = 2
    /\ roastHistory[2].id = 1
    /\ roastHistory[1].ambientTemp = NaN
    /\ localStorage.present
    /\ Len(localStorage.text) = 2
    /\ localStorage.text[1].id = 2
    /\ localStorage.text[2].id = 1
    /\ localStorage.text[1].ambientTemp = JsonNull

\* C24: the phase is never maillard, no first crack is ahead of roastTimer,
\* and the phase changes only from drying to development, or back to
\* drying by the step that ends the session.
MaillardNeverObserved ==
    /\ [](getCurrentPhase # "maillard")
    /\ [](firstCrackTime # Null => ~(roastTimer < firstCrackTime))
    /\ [][getCurrentPhase' # getCurrentPhase =>
             \/ getCurrentPhase = "drying" /\ getCurrentPhase' = "development"
             \/ getCurrentPhase' = "drying" /\ SessionEnds]_vars

\* C24 witness: the development phase, reached from drying by a first
\* crack marked at second 1, with the timer running on.
DevelopmentPhaseRunning ==
    /\ appState = "roasting"
    /\ isTimerRunning
    /\ firstCrackTime = 1
    /\ roastTimer = 2
    /\ getCurrentPhase = "development"

\* C25: getDevelopmentPercent() is an integer from 0 to 100, it is 0 while
\* roastTimer is 0, and it divides by roastTimer only when roastTimer is
\* not 0.
DevelopmentPercentWellDefined ==
    /\ IsFinite(getDevelopmentPercent)
    /\ getDevelopmentPercent.d = 1
    /\ 0 <= getDevelopmentPercent.n
    /\ getDevelopmentPercent.n <= 100
    /\ roastTimer = 0 => getDevelopmentPercent = Num(0)
    /\ ~NoFirstCrack(firstCrackTime) => roastTimer # 0

\* C25 witness: a first crack marked at second 0 with roastTimer still 0,
\* where the quotient would be 0 / 0.
FirstCrackMarkedAtStart ==
    /\ appState = "roasting"
    /\ firstCrackTime = 0
    /\ roastTimer = 0
    /\ getDevelopmentPercent = Num(0)

\* C26: a saveRoast step makes the archive one record longer, keeps every
\* record that was in it at its place, and ends in the setup view with the
\* timer stopped at 0, no first crack and no readings.
SaveAppendsAndResets ==
    [][\A now \in Now:
          saveRoast(now) =>
             /\ appState = "summary"
             /\ Len(roastHistory') = Len(roastHistory) + 1
             /\ \A i \in 1..Len(roastHistory): roastHistory'[i] = roastHistory[i]
             /\ appState' = "setup"
             /\ ~isTimerRunning'
             /\ roastTimer' = 0
             /\ firstCrackTime' = Null
             /\ temperatureReadings' = <<>>]_vars

\* C26 witness: a second session was saved: the archive holds the record
\* of the first, reloaded from localStorage in between, and after it the
\* new record, and the setup view shows an empty session.
SecondRecordAppended ==
    /\ appState = "setup"
    /\ Len(roastHistory) = 2
    /\ roastHistory[1].ambientTemp = JsonNull
    /\ roastHistory[2].ambientTemp = Num(22)
    /\ temperatureReadings = <<>>
    /\ ~isTimerRunning
    /\ localStorage = Item(JSONstringify(roastHistory))

\* C27: in the completion and summary views the timer is stopped: no
\* interval is registered, and none of the controls that change roastTimer,
\* firstCrackTime or the readings can be used.
NoTimerAfterFinish ==
    appState \in {"completion", "summary"} =>
       /\ ~isTimerRunning
       /\ ~timerInterval
       /\ ~ENABLED Tick
       /\ ~ENABLED markFirstCrack
       /\ ~ENABLED addTemperatureReading
       /\ ~ENABLED resumeRoast
       /\ ~ENABLED startRoast

\* C27 witness: the summary view of a session that ran for two seconds
\* with a first crack and a logged reading.
TimedSessionAtSummary ==
    /\ appState = "summary"
    /\ roastTimer = 2
    /\ firstCrackTime = 1
    /\ Len(temperatureReadings) = 2

\* C28: every record of the archive has firstCrackTime <= totalTime, the
\* time of each of its readings <= totalTime, and as developmentPercent
\* what getDevelopmentPercent computes from its totalTime and firstCrackTime.
ArchivedRecordConsistent ==
    \A i \in 1..Len(roastHistory):
       LET r == roastHistory[i]
       IN  /\ r.firstCrackTime <= r.totalTime
           /\ \A k \in 1..Len(r.temperatureReadings):
                 r.temperatureReadings[k].time <= r.totalTime
           /\ r.developmentPercent =
                 DevelopmentPercent(r.totalTime, r.firstCrackTime)

\* C28 witness: the history view on a record of two seconds with a first
\* crack at second 1, a reading at second 2 and 50 percent development.
HalfDevelopedRecordShown ==
    /\ appState = "history"
    /\ Len(roastHistory) = 1
    /\ roastHistory[1].totalTime = 2
    /\ roastHistory[1].firstCrackTime = 1
    /\ roastHistory[1].developmentPercent = Num(50)
    /\ Len(roastHistory[1].temperatureReadings) = 2
    /\ roastHistory[1].temperatureReadings[2].time = 2
=============================================================================
